---- MODULE Spec2Model ----
(***************************************************************************)
(* CADream backend: conversion of a DXF document's entities into render    *)
(* records and the bounds computed over them, as written twice, in         *)
(* cadream/backend/cad_parser.py and in cadream/backend/main.py, and the   *)
(* /dxf/parse endpoint of main.py that calls main.py's copy; and           *)
(* parse_dxf_file of backend/app/services/dxf_parser.py with its bounds.   *)
(*                                                                         *)
(* Coordinates are integers: the code only adds, subtracts and compares    *)
(* them, and float() of a number keeps its value.                          *)
(***************************************************************************)
EXTENDS Integers, Sequences, FiniteSets, TLC

VARIABLES
    impl,          \* which file's code runs: "cad_parser", "main" or
                   \* "dxf_parser"
    caller,        \* what is called: "direct": dxf_to_render_json; "endpoint":
                   \* parse_dxf; "blocks": extract_blocks; "file": parse_dxf_file
    max_entities,  \* the max_entities argument of dxf_to_render_json
    pc,            \* position of the run
    msp,           \* the entities the modelspace iterator has yielded so far
    entities,      \* local `entities` of dxf_to_render_json
    count,         \* local `count` of main.py's dxf_to_render_json, and of
                   \* its extract_blocks
    broke,         \* the conversion loop was left by `break`
    usable,        \* local `usable`
    preferred,     \* local `preferred`
    pref_bounds,   \* result of the first bounds call, over `preferred`
    bounds,        \* local `bounds` as returned
    exc,           \* the exception raised ("" when none)
    failed_at,     \* the step that raised it: "read", "load", "convert",
                   \* "bounds" or "blocks" ("" when none)
    blocks,        \* doc.blocks as read by extract_blocks: the blocks visited,
                   \* each with the entities its iterator has yielded
    response,      \* what the endpoint answered
    max_entities_per_block,  \* the argument of extract_blocks
    blk_i,         \* how many blocks of doc.blocks the outer loop has taken
    blk_ents,      \* extract_blocks' list for the block at hand (`entities` in
                   \* cad_parser.py, `ents` in main.py)
    blocks_out,    \* local `blocks_out` of extract_blocks
    min_x,         \* locals of parse_dxf_file
    min_y,
    max_x,
    max_y,
    scope          \* the dict locals() handed to _update_bounds, as the call
                   \* left it

\* the variables of a stepwise extract_blocks
blockvars == <<max_entities_per_block, blk_i, blk_ents, blocks_out>>

\* the variables of parse_dxf_file
parservars == <<min_x, min_y, max_x, max_y, scope>>

vars == <<impl, caller, max_entities, pc, msp, entities, count, broke, usable,
          preferred, pref_bounds, bounds, exc, failed_at, blocks, response,
          blockvars, parservars>>

-----------------------------------------------------------------------------
(* Bounds of the model *)

\* the modelspace iterator yields at most MaxLen entities
MaxLen == 2

-----------------------------------------------------------------------------
(* Python values *)

\* Python's None, where a record or None is expected
None == [none |-> TRUE]

\* the outcome of an expression that raised an exception of class `kind`
Raised(kind) == [raised |-> kind]

IsRaised(v) == DOMAIN v = {"raised"}

\* classes caught by `except Exception`: every exception the library and the
\* conversion raise derives from Exception
ExceptionClasses == {"OSError", "DXFStructureError", "AttributeError",
                     "KeyError", "ValueError"}

-----------------------------------------------------------------------------
(* Layer classification *)

IGNORE_LAYERS ==
    {"Defpoints", "DEFPOINTS", "Drawing Frame", "DRAWING FRAME", "BORDER",
     "TITLEBLOCK", "Title Block"}

PREFERRED_LAYERS ==
    {"Base Map", "Unit Area Boundary", "Road", "Obstruction", "Ridge Line",
     "Switching Station", "Mounting Structure", "Module", "Inverter",
     "Transformer", "Combiner Box", "Cable Path", "AC Cable", "DC Cable",
     "Service Panel", "Shading", "0"}

-----------------------------------------------------------------------------
(* The documents: entities as the DXF library hands them over.  An attribute *)
(* the entity does not carry is a field the record does not have.            *)

\* layers the sample entities lie on: preferred, neither, ignored
SampleLayers == {"Module", "Walls", "BORDER"}

\* entity shapes, before a layer is attached
GeometryShapes ==
    { [dxftype |-> "LINE", start |-> <<0, 0>>, end |-> <<10, 0>>],
      [dxftype |-> "LWPOLYLINE", points |-> <<>>, closed |-> FALSE],
      [dxftype |-> "LWPOLYLINE", points |-> <<(<<1, 1>>), (<<3, 7>>)>>, closed |-> TRUE],
      [dxftype |-> "POLYLINE", vertices |-> <<[location |-> <<-2, 4>>]>>,
       is_closed |-> FALSE],
      [dxftype |-> "CIRCLE", center |-> <<20, 20>>, radius |-> 2],
      [dxftype |-> "CIRCLE", center |-> <<10, 10>>, radius |-> 5],
      [dxftype |-> "ARC", center |-> <<10, 10>>, radius |-> 5,
       start_angle |-> 0, end_angle |-> 90],
      [dxftype |-> "ARC", center |-> <<10, 10>>, radius |-> 5,
       start_angle |-> 90, end_angle |-> 180],
      [dxftype |-> "TEXT", text |-> "T", insert |-> <<12, 12>>, height |-> 3],
      [dxftype |-> "MTEXT"],
      [dxftype |-> "INSERT", name |-> "A", insert |-> <<30, -3>>, rotation |-> 90] }

WithLayer(shape, layer) == shape @@ [layer |-> layer]

RawEntities ==
    { WithLayer(s, l) : s \in GeometryShapes, l \in SampleLayers }
    \cup
    { \* entities whose layer cannot be read
      [dxftype |-> "LINE", start |-> <<0, 0>>, end |-> <<10, 0>>],
      [dxftype |-> "CIRCLE", center |-> <<20, 20>>, radius |-> 2],
      \* a POLYLINE without vertices
      [dxftype |-> "POLYLINE", vertices |-> <<>>, is_closed |-> FALSE, layer |-> "Module"],
      \* kinds the conversion does not know
      [dxftype |-> "HATCH", layer |-> "Module"],
      [dxftype |-> "HATCH", layer |-> "Walls"],
      [dxftype |-> "DIMENSION", layer |-> "BORDER"],
      \* an INSERT without an insertion point
      [dxftype |-> "INSERT", name |-> "A", layer |-> "Module"] }

-----------------------------------------------------------------------------
(* Conversion of one entity *)

\* entity.dxf.layer, "0" when the access fails
_safe_layer(entity) ==
    IF "layer" \in DOMAIN entity THEN entity.layer ELSE "0"

\* the locations of the vertices that have one, in order
RECURSIVE VertexLocations(_)
VertexLocations(vertices) ==
    IF vertices = <<>> THEN <<>>
    ELSE IF "location" \in DOMAIN Head(vertices)
         THEN <<Head(vertices).location>> \o VertexLocations(Tail(vertices))
         ELSE VertexLocations(Tail(vertices))

\* polyline_entity.points(): the library's list of the vertex locations
PolylinePointsMethod(polyline_entity) ==
    VertexLocations(polyline_entity.vertices)

\* the vertices' locations, else points(), else nothing; an entity without
\* vertices raises in both tries, which leaves the empty list
polyline_xy_points(polyline_entity) ==
    LET points == IF "vertices" \in DOMAIN polyline_entity
                  THEN VertexLocations(polyline_entity.vertices) ELSE <<>>
    IN IF points # <<>> THEN points
       ELSE IF "vertices" \in DOMAIN polyline_entity
            THEN PolylinePointsMethod(polyline_entity)
            ELSE <<>>

\* getattr(entity.dxf, key, default) or default, for a number
NumberOr(entity, key, default) ==
    LET v == IF key \in DOMAIN entity THEN entity[key] ELSE default
    IN IF v = 0 THEN default ELSE v

\* getattr(entity.dxf, "text", None) or ""
TextOr(entity) == IF "text" \in DOMAIN entity THEN entity.text ELSE ""

\* [insert.x, insert.y] if insert else [0.0, 0.0]
TextPosition(entity) ==
    IF "insert" \in DOMAIN entity THEN entity.insert ELSE <<0, 0>>

\* a record, None for a dropped entity, or Raised(..) when an access fails
_convert_entity(entity, layer) ==
    LET entity_type == entity.dxftype IN
    CASE entity_type = "LINE" ->
            [type |-> "LINE", layer |-> layer,
             p1 |-> entity.start, p2 |-> entity.end]
      [] entity_type = "LWPOLYLINE" ->
            [type |-> "LWPOLYLINE", layer |-> layer,
             points |-> entity.points, closed |-> entity.closed]
      [] entity_type = "POLYLINE" ->
            LET points == polyline_xy_points(entity) IN
            IF points = <<>> THEN None
            ELSE [type |-> "LWPOLYLINE", layer |-> layer, points |-> points,
                  closed |-> IF "is_closed" \in DOMAIN entity
                             THEN entity.is_closed ELSE FALSE]
      [] entity_type = "CIRCLE" ->
            [type |-> "CIRCLE", layer |-> layer,
             center |-> entity.center, r |-> entity.radius]
      [] entity_type = "ARC" ->
            [type |-> "ARC", layer |-> layer,
             center |-> entity.center, r |-> entity.radius,
             start_angle |-> entity.start_angle, end_angle |-> entity.end_angle]
      [] entity_type \in {"TEXT", "MTEXT"} ->
            [type |-> entity_type, layer |-> layer, text |-> TextOr(entity),
             pos |-> TextPosition(entity),
             height |-> NumberOr(entity, "height", 10)]
      [] entity_type = "INSERT" ->
            IF "insert" \notin DOMAIN entity THEN Raised("AttributeError")
            ELSE [type |-> "INSERT", layer |-> layer, name |-> entity.name,
                  pos |-> entity.insert,
                  rotation |-> NumberOr(entity, "rotation", 0),
                  xscale |-> NumberOr(entity, "xscale", 1),
                  yscale |-> NumberOr(entity, "yscale", 1)]
      [] OTHER -> None

-----------------------------------------------------------------------------
(* Bounds over converted entities: cad_parser.py *)

NoPoints == [pts |-> <<>>, err |-> ""]

\* a variant with a wrong sign in the second corner
CirclePoints_WrongCorner(entity) ==
    << <<entity.center[1] - entity.r, entity.center[2] - entity.r>>,
       <<entity.center[1] + entity.r, entity.center[2] - entity.r>> >>

\* center_x, center_y = entity["center"]; radius = entity["r"];
\* add_point(center_x - radius, center_y - radius);
\* add_point(center_x + radius, center_y + radius)
CirclePoints(entity) ==
    LET center_x == entity.center[1]
        center_y == entity.center[2]
        radius == entity.r
    IN << <<center_x - radius, center_y - radius>>,
          <<center_x + radius, center_y + radius>> >>

\* the points one entity hands to add_point, in order; err names the exception
\* a subscript or an unpacking raises
EntityPoints(entity) ==
    IF "type" \notin DOMAIN entity THEN [pts |-> <<>>, err |-> "KeyError"]
    ELSE LET entity_type == entity.type IN
    CASE entity_type = "LINE" ->
            IF {"p1", "p2"} \subseteq DOMAIN entity
            THEN [pts |-> <<entity.p1, entity.p2>>, err |-> ""]
            ELSE [pts |-> <<>>, err |-> "KeyError"]
      [] entity_type = "LWPOLYLINE" ->
            IF "points" \in DOMAIN entity
            THEN [pts |-> entity.points, err |-> ""]
            ELSE [pts |-> <<>>, err |-> "KeyError"]
      [] entity_type \in {"CIRCLE", "ARC"} ->
            IF {"center", "r"} \subseteq DOMAIN entity
            THEN [pts |-> CirclePoints(entity), err |-> ""]
            ELSE [pts |-> <<>>, err |-> "KeyError"]
      [] entity_type \in {"TEXT", "MTEXT", "INSERT"} ->
            IF "pos" \in DOMAIN entity
            THEN [pts |-> <<entity.pos>>, err |-> ""]
            ELSE [pts |-> <<>>, err |-> "KeyError"]
      [] OTHER -> NoPoints

\* add_point for each point of a list: x to xs, y to ys
RECURSIVE add_point(_, _)
add_point(acc, pts) ==
    IF pts = <<>> THEN acc
    ELSE add_point([acc EXCEPT !.xs = Append(@, Head(pts)[1]),
                               !.ys = Append(@, Head(pts)[2])],
                   Tail(pts))

\* the loop over the entities; acc = [xs, ys, err]
RECURSIVE add_points(_, _)
add_points(ents, acc) ==
    IF ents = <<>> THEN acc
    ELSE LET c == EntityPoints(Head(ents)) IN
         IF c.err # "" THEN [acc EXCEPT !.err = c.err]
         ELSE add_points(Tail(ents), add_point(acc, c.pts))

\* min(values) of a non-empty list: a scan keeping the first least value
RECURSIVE PyMinFrom(_, _)
PyMinFrom(best, values) ==
    IF values = <<>> THEN best
    ELSE PyMinFrom(IF Head(values) < best THEN Head(values) ELSE best,
                   Tail(values))

\* a variant that takes the first value for the least
PyMin_First(values) == Head(values)

PyMin(values) == PyMinFrom(Head(values), Tail(values))

\* max(values) of a non-empty list
RECURSIVE PyMaxFrom(_, _)
PyMaxFrom(best, values) ==
    IF values = <<>> THEN best
    ELSE PyMaxFrom(IF Head(values) > best THEN Head(values) ELSE best,
                   Tail(values))

\* a variant that takes the last value for the greatest
PyMax_Last(values) == values[Len(values)]

PyMax(values) == PyMaxFrom(Head(values), Tail(values))

\* {"min": [min(xs), min(ys)], "max": [max(xs), max(ys)]}; min() and max() of
\* an empty list raise ValueError
MinMaxBox(xs, ys) ==
    IF xs = <<>> \/ ys = <<>> THEN Raised("ValueError")
    ELSE [min |-> <<PyMin(xs), PyMin(ys)>>, max |-> <<PyMax(xs), PyMax(ys)>>]

\* a variant without the test for empty lists
_compute_bounds_Unguarded(ents) ==
    LET acc == add_points(ents, [xs |-> <<>>, ys |-> <<>>, err |-> ""]) IN
    IF acc.err # "" THEN Raised(acc.err) ELSE MinMaxBox(acc.xs, acc.ys)

\* a box, None, or Raised(..)
_compute_bounds(ents) ==
    LET acc == add_points(ents, [xs |-> <<>>, ys |-> <<>>, err |-> ""]) IN
    IF acc.err # "" THEN Raised(acc.err)
    ELSE IF acc.xs = <<>> \/ acc.ys = <<>> THEN None
    ELSE MinMaxBox(acc.xs, acc.ys)

\* entity.get("layer", "0")
LayerOf(entity) == IF "layer" \in DOMAIN entity THEN entity.layer ELSE "0"

IsUsable(entity) == LayerOf(entity) \notin IGNORE_LAYERS

IsPreferred(entity) == LayerOf(entity) \in PREFERRED_LAYERS

\* a variant that filters nothing out
UsableOf_KeepsIgnored(ents) == ents

\* usable = [entity for entity in entities if ... not in IGNORE_LAYERS]
UsableOf(ents) == SelectSeq(ents, IsUsable)

\* preferred = [entity for entity in usable if ... in PREFERRED_LAYERS]
PreferredOf(usable_) == SelectSeq(usable_, IsPreferred)

\* a variant that always takes the bounds over `usable`
SelectBounds_UsableOnly(preferred_, usable_) == _compute_bounds(usable_)

\* bounds = _compute_bounds(preferred); if bounds is None: ... (usable)
SelectBounds(preferred_, usable_) ==
    LET first == _compute_bounds(preferred_) IN
    IF first = None THEN _compute_bounds(usable_) ELSE first

-----------------------------------------------------------------------------
(* Bounds over converted entities: main.py *)

\* cx, cy = ent["center"]; r = ent["r"];
\* add_point(cx - r, cy - r); add_point(cx + r, cy + r)
circle_points_main(ent) ==
    LET cx == ent.center[1]
        cy == ent.center[2]
        r == ent.r
    IN << <<cx - r, cy - r>>, <<cx + r, cy + r>> >>

\* the loop of compute_bounds; acc = [xs, ys, err]
RECURSIVE add_points_main(_, _)
add_points_main(ents, acc) ==
    IF ents = <<>> THEN acc
    ELSE LET ent == Head(ents) IN
         IF "type" \notin DOMAIN ent THEN [acc EXCEPT !.err = "KeyError"]
         ELSE LET t == ent.type
                  missing(keys) == ~(keys \subseteq DOMAIN ent)
              IN
              IF t = "LINE" THEN
                  IF missing({"p1", "p2"}) THEN [acc EXCEPT !.err = "KeyError"]
                  ELSE add_points_main(Tail(ents), add_point(acc, <<ent.p1, ent.p2>>))
              ELSE IF t = "LWPOLYLINE" THEN
                  IF missing({"points"}) THEN [acc EXCEPT !.err = "KeyError"]
                  ELSE add_points_main(Tail(ents), add_point(acc, ent.points))
              ELSE IF t \in {"CIRCLE", "ARC"} THEN
                  IF missing({"center", "r"}) THEN [acc EXCEPT !.err = "KeyError"]
                  ELSE add_points_main(Tail(ents),
                                       add_point(acc, circle_points_main(ent)))
              ELSE IF t \in {"TEXT", "MTEXT", "INSERT"} THEN
                  IF missing({"pos"}) THEN [acc EXCEPT !.err = "KeyError"]
                  ELSE add_points_main(Tail(ents), add_point(acc, <<ent.pos>>))
              ELSE add_points_main(Tail(ents), acc)

\* a variant whose loop passes over the polylines' points
compute_bounds_SkipsPolylines(ents) ==
    LET NotPolyline(ent) == ent.type # "LWPOLYLINE"
        acc == add_points_main(SelectSeq(ents, NotPolyline),
                               [xs |-> <<>>, ys |-> <<>>, err |-> ""])
    IN IF acc.err # "" THEN Raised(acc.err)
       ELSE IF acc.xs # <<>> /\ acc.ys # <<>> THEN MinMaxBox(acc.xs, acc.ys)
       ELSE None

\* a box, None, or Raised(..)
compute_bounds(ents) ==
    LET acc == add_points_main(ents, [xs |-> <<>>, ys |-> <<>>, err |-> ""]) IN
    IF acc.err # "" THEN Raised(acc.err)
    ELSE IF acc.xs # <<>> /\ acc.ys # <<>> THEN MinMaxBox(acc.xs, acc.ys)
    ELSE None

\* a variant that filters nothing out
UsableOfMain_KeepsIgnored(ents) == ents

\* usable = [e for e in entities if e.get("layer", "0") not in IGNORE_LAYERS]
UsableOfMain(ents) == SelectSeq(ents, IsUsable)

\* preferred = [e for e in usable if e.get("layer", "0") in PREFERRED_LAYERS]
PreferredOfMain(usable_) == SelectSeq(usable_, IsPreferred)

\* a variant without the fallback to `usable`
SelectBoundsMain_NoFallback(preferred_, usable_) == compute_bounds(preferred_)

\* bounds = compute_bounds(preferred); if bounds is None: ... (usable)
SelectBoundsMain(preferred_, usable_) ==
    LET first == compute_bounds(preferred_) IN
    IF first = None THEN compute_bounds(usable_) ELSE first

-----------------------------------------------------------------------------
(* The conversion loop: cad_parser.py.  A loop state is                     *)
(* [entities, count, exc]; cad_parser.py keeps no count.                    *)

LoopStart == [entities |-> <<>>, count |-> 0, exc |-> ""]

\* a variant that appends whatever the conversion returns
loop_body_KeepsDropped(st, entity) ==
    LET converted == _convert_entity(entity, _safe_layer(entity))
    IN IF IsRaised(converted) THEN [st EXCEPT !.exc = converted.raised]
       ELSE [st EXCEPT !.entities = Append(@, converted)]

\* layer = _safe_layer(entity); converted = _convert_entity(entity, layer);
\* if converted is not None: entities.append(converted)
loop_body(st, entity) ==
    LET layer == _safe_layer(entity)
        converted == _convert_entity(entity, layer)
    IN IF IsRaised(converted) THEN [st EXCEPT !.exc = converted.raised]
       ELSE IF converted # None
            THEN [st EXCEPT !.entities = Append(@, converted)]
            ELSE st

\* a variant that lets one entity more in
cap_reached_OneMore(st, max) == Len(st.entities) > max

\* if len(entities) >= max_entities: break
cap_reached(st, max) == Len(st.entities) >= max

\* for entity in modelspace: ..., from loop state st on
RECURSIVE conversion_loop(_, _, _)
conversion_loop(modelspace, max, st) ==
    IF modelspace = <<>> \/ st.exc # "" THEN st
    ELSE IF cap_reached(st, max) THEN st
    ELSE conversion_loop(Tail(modelspace), max, loop_body(st, Head(modelspace)))

-----------------------------------------------------------------------------
(* The conversion loop: main.py *)

\* main.py's own polyline_xy_points
polyline_xy_points_main(polyline_entity) ==
    LET pts == IF "vertices" \in DOMAIN polyline_entity
               THEN VertexLocations(polyline_entity.vertices) ELSE <<>>
    IN IF pts # <<>> THEN pts
       ELSE IF "vertices" \in DOMAIN polyline_entity
            THEN PolylinePointsMethod(polyline_entity)
            ELSE <<>>

\* the if/elif chain of the loop: each branch appends and counts
loop_body_main(st, e) ==
    LET t == e.dxftype
        layer == IF "layer" \in DOMAIN e THEN e.layer ELSE "0"
        emit(rec) == [st EXCEPT !.entities = Append(@, rec), !.count = @ + 1]
    IN
    IF t = "LINE" THEN
        emit([type |-> "LINE", layer |-> layer, p1 |-> e.start, p2 |-> e.end])
    ELSE IF t \in {"LWPOLYLINE"} THEN
        emit([type |-> "LWPOLYLINE", layer |-> layer, points |-> e.points,
              closed |-> e.closed])
    ELSE IF t = "CIRCLE" THEN
        emit([type |-> "CIRCLE", layer |-> layer, center |-> e.center,
              r |-> e.radius])
    ELSE IF t = "ARC" THEN
        emit([type |-> "ARC", layer |-> layer, center |-> e.center,
              r |-> e.radius, start_angle |-> e.start_angle,
              end_angle |-> e.end_angle])
    ELSE IF t \in {"TEXT", "MTEXT"} THEN
        emit([type |-> t, layer |-> layer, text |-> TextOr(e),
              pos |-> IF "insert" \in DOMAIN e THEN e.insert ELSE <<0, 0>>,
              height |-> NumberOr(e, "height", 10)])
    ELSE IF t = "INSERT" THEN
        IF "insert" \notin DOMAIN e THEN [st EXCEPT !.exc = "AttributeError"]
        ELSE emit([type |-> "INSERT", layer |-> layer, name |-> e.name,
                   pos |-> e.insert,
                   rotation |-> NumberOr(e, "rotation", 0),
                   xscale |-> NumberOr(e, "xscale", 1),
                   yscale |-> NumberOr(e, "yscale", 1)])
    ELSE IF t = "POLYLINE" THEN
        LET pts == polyline_xy_points_main(e) IN
        IF pts = <<>> THEN st
        ELSE emit([type |-> "LWPOLYLINE", layer |-> layer, points |-> pts,
                   closed |-> IF "is_closed" \in DOMAIN e
                              THEN e.is_closed ELSE FALSE])
    ELSE st

\* if count >= max_entities: break
cap_reached_main(st, max) == st.count >= max

\* for e in msp: ..., from loop state st on
RECURSIVE conversion_loop_main(_, _, _)
conversion_loop_main(modelspace, max, st) ==
    IF modelspace = <<>> \/ st.exc # "" THEN st
    ELSE IF cap_reached_main(st, max) THEN st
    ELSE conversion_loop_main(Tail(modelspace), max,
                              loop_body_main(st, Head(modelspace)))

-----------------------------------------------------------------------------
(* dxf_to_render_json as a function of the modelspace and max_entities:    *)
(* [entities, bounds, exc]                                                 *)

\* cad_parser.py
dxf_to_render_json(modelspace, max) ==
    LET st == conversion_loop(modelspace, max, LoopStart)
        u == UsableOf(st.entities)
        p == PreferredOf(u)
        b == SelectBounds(p, u)
    IN IF st.exc # "" THEN [entities |-> <<>>, bounds |-> None, exc |-> st.exc]
       ELSE IF IsRaised(b) THEN [entities |-> <<>>, bounds |-> None, exc |-> b.raised]
       ELSE [entities |-> st.entities, bounds |-> b, exc |-> ""]

\* main.py
dxf_to_render_json_main(modelspace, max) ==
    LET st == conversion_loop_main(modelspace, max, LoopStart)
        u == UsableOfMain(st.entities)
        p == PreferredOfMain(u)
        b == SelectBoundsMain(p, u)
    IN IF st.exc # "" THEN [entities |-> <<>>, bounds |-> None, exc |-> st.exc]
       ELSE IF IsRaised(b) THEN [entities |-> <<>>, bounds |-> None, exc |-> b.raised]
       ELSE [entities |-> st.entities, bounds |-> b, exc |-> ""]

-----------------------------------------------------------------------------
(* extract_blocks: main.py.  doc.blocks is a list of [name, entities].     *)

\* a variant that skips the modelspace block only
IsLayoutBlock_ModelSpaceOnly(name) == name = "*Model_Space"

\* name in ("*Model_Space", "*Paper_Space") or name.startswith("*Paper_Space"),
\* over the block names of the sample documents
IsLayoutBlock(name) ==
    name \in {"*Model_Space", "*Paper_Space", "*Paper_Space0"}

\* the if/elif chain of the loop over one block
block_body_main(st, e) ==
    LET t == e.dxftype
        layer == IF "layer" \in DOMAIN e THEN e.layer ELSE "0"
        emit(rec) == [st EXCEPT !.entities = Append(@, rec), !.count = @ + 1]
    IN
    IF t = "LINE" THEN
        emit([type |-> "LINE", layer |-> layer, p1 |-> e.start, p2 |-> e.end])
    ELSE IF t = "LWPOLYLINE" THEN
        emit([type |-> "LWPOLYLINE", layer |-> layer, points |-> e.points,
              closed |-> e.closed])
    ELSE IF t = "POLYLINE" THEN
        LET pts == polyline_xy_points_main(e) IN
        IF pts = <<>> THEN st
        ELSE emit([type |-> "LWPOLYLINE", layer |-> layer, points |-> pts,
                   closed |-> IF "is_closed" \in DOMAIN e
                              THEN e.is_closed ELSE FALSE])
    ELSE IF t = "CIRCLE" THEN
        emit([type |-> "CIRCLE", layer |-> layer, center |-> e.center,
              r |-> e.radius])
    ELSE IF t = "ARC" THEN
        emit([type |-> "ARC", layer |-> layer, center |-> e.center,
              r |-> e.radius, start_angle |-> e.start_angle,
              end_angle |-> e.end_angle])
    ELSE IF t \in {"TEXT", "MTEXT"} THEN
        emit([type |-> t, layer |-> layer, text |-> TextOr(e),
              pos |-> IF "insert" \in DOMAIN e THEN e.insert ELSE <<0, 0>>,
              height |-> NumberOr(e, "height", 10)])
    ELSE IF t = "INSERT" THEN
        IF "insert" \notin DOMAIN e THEN [st EXCEPT !.exc = "AttributeError"]
        ELSE emit([type |-> "INSERT", layer |-> layer, name |-> e.name,
                   pos |-> e.insert,
                   rotation |-> NumberOr(e, "rotation", 0),
                   xscale |-> NumberOr(e, "xscale", 1),
                   yscale |-> NumberOr(e, "yscale", 1)])
    ELSE st

\* for e in blk: if count >= max_entities_per_block: break ...
RECURSIVE block_loop_main(_, _, _)
block_loop_main(blk, max, st) ==
    IF blk = <<>> \/ st.exc # "" THEN st
    ELSE IF st.count >= max THEN st
    ELSE block_loop_main(Tail(blk), max, block_body_main(st, Head(blk)))

\* for blk in doc.blocks: ...; out = [blocks_out, exc]
RECURSIVE extract_blocks_from(_, _, _)
extract_blocks_from(doc_blocks, max, out) ==
    IF doc_blocks = <<>> \/ out.exc # "" THEN out
    ELSE LET blk == Head(doc_blocks)
             name == blk.name
         IN IF IsLayoutBlock(name)
            THEN extract_blocks_from(Tail(doc_blocks), max, out)
            ELSE LET st == block_loop_main(blk.entities, max, LoopStart) IN
                 IF st.exc # "" THEN [out EXCEPT !.exc = st.exc]
                 ELSE extract_blocks_from(Tail(doc_blocks), max,
                        IF st.entities # <<>>
                        THEN [out EXCEPT !.blocks_out =
                                  (name :> st.entities) @@ @]
                        ELSE out)

\* max_entities_per_block, as parse_dxf leaves it
DEFAULT_MAX_ENTITIES_PER_BLOCK == 20000

\* [blocks_out, exc]: the dict returned, or the exception raised
extract_blocks_main(doc_blocks, max) ==
    extract_blocks_from(doc_blocks, max, [blocks_out |-> <<>>, exc |-> ""])

-----------------------------------------------------------------------------
(* extract_blocks: cad_parser.py *)

\* layer = _safe_layer(entity); converted = _convert_entity(entity, layer);
\* if converted is not None: entities.append(converted)
block_body(st, entity) ==
    LET layer == _safe_layer(entity)
        converted == _convert_entity(entity, layer)
    IN IF IsRaised(converted) THEN [st EXCEPT !.exc = converted.raised]
       ELSE IF converted # None
            THEN [st EXCEPT !.entities = Append(@, converted)]
            ELSE st

\* for entity in block: if len(entities) >= max_entities_per_block: break ...
RECURSIVE block_loop(_, _, _)
block_loop(block, max, st) ==
    IF block = <<>> \/ st.exc # "" THEN st
    ELSE IF Len(st.entities) >= max THEN st
    ELSE block_loop(Tail(block), max, block_body(st, Head(block)))

\* for block in doc.blocks: ...; out = [blocks_out, exc]
RECURSIVE extract_blocks_over(_, _, _)
extract_blocks_over(doc_blocks, max, out) ==
    IF doc_blocks = <<>> \/ out.exc # "" THEN out
    ELSE LET block == Head(doc_blocks)
             name == block.name
         IN IF IsLayoutBlock(name)
            THEN extract_blocks_over(Tail(doc_blocks), max, out)
            ELSE LET st == block_loop(block.entities, max, LoopStart) IN
                 IF st.exc # "" THEN [out EXCEPT !.exc = st.exc]
                 ELSE extract_blocks_over(Tail(doc_blocks), max,
                        IF st.entities # <<>>
                        THEN [out EXCEPT !.blocks_out =
                                  (name :> st.entities) @@ @]
                        ELSE out)

\* [blocks_out, exc]: the dict returned, or the exception raised
extract_blocks(doc_blocks, max) ==
    extract_blocks_over(doc_blocks, max, [blocks_out |-> <<>>, exc |-> ""])

-----------------------------------------------------------------------------
(* The sample documents' layer table and block tables *)

\* doc.layers, as copied into the payload
DocLayers ==
    << [name |-> "0", color |-> 7, linetype |-> "Continuous"],
       [name |-> "Module", color |-> 3, linetype |-> "Continuous"] >>

BlockTables ==
    { <<>>,
      << [name |-> "*Model_Space",
          entities |-> << [dxftype |-> "LINE", start |-> <<0, 0>>,
                           end |-> <<10, 0>>, layer |-> "Module"] >>],
         [name |-> "*Paper_Space0",
          entities |-> << [dxftype |-> "CIRCLE", center |-> <<20, 20>>,
                           radius |-> 2, layer |-> "Module"] >>],
         [name |-> "A",
          entities |-> << [dxftype |-> "LINE", start |-> <<100, 100>>,
                           end |-> <<200, 200>>, layer |-> "Walls"],
                          [dxftype |-> "HATCH", layer |-> "Walls"] >>],
         [name |-> "B",
          entities |-> << [dxftype |-> "HATCH", layer |-> "Module"] >>] >>,
      << [name |-> "A",
          entities |-> << [dxftype |-> "INSERT", name |-> "B",
                           layer |-> "Module"] >>] >> }

-----------------------------------------------------------------------------
(* dxf_parser.py: floats with the two infinities *)

\* a finite float
Fin(n) == [fin |-> TRUE, v |-> n]

\* float('inf')
PosInf == [fin |-> FALSE, v |-> 1]

\* float('-inf')
NegInf == [fin |-> FALSE, v |-> -1]

\* a < b
FloatLt(a, b) ==
    IF a.fin /\ b.fin THEN a.v < b.v
    ELSE IF a.fin THEN b = PosInf
    ELSE a = NegInf /\ b # NegInf

\* a > b
FloatGt(a, b) == FloatLt(b, a)

-----------------------------------------------------------------------------
(* dxf_parser.py: the entities of its sample documents, and _parse_entity *)

ParserEntities ==
    { [dxftype |-> "LINE", start |-> <<0, 0>>, end |-> <<10, 0>>, layer |-> "Module"],
      [dxftype |-> "CIRCLE", center |-> <<20, 20>>, radius |-> 2],
      [dxftype |-> "ARC", center |-> <<10, 10>>, radius |-> 5,
       start_angle |-> 0, end_angle |-> 90, layer |-> "Walls"],
      [dxftype |-> "LWPOLYLINE", points |-> <<>>, closed |-> FALSE, layer |-> "Module"],
      [dxftype |-> "LWPOLYLINE", points |-> <<(<<1, 1>>), (<<3, 7>>)>>,
       closed |-> TRUE, layer |-> "Module"],
      [dxftype |-> "POLYLINE", vertices |-> <<[location |-> <<-2, 4>>]>>,
       is_closed |-> FALSE, layer |-> "Walls"],
      [dxftype |-> "TEXT", text |-> "T", insert |-> <<12, 12>>, height |-> 3,
       layer |-> "BORDER"],
      [dxftype |-> "INSERT", name |-> "A", insert |-> <<30, -3>>, layer |-> "Module"],
      \* an INSERT without an insertion point
      [dxftype |-> "INSERT", name |-> "A", layer |-> "Module"],
      [dxftype |-> "ELLIPSE", center |-> <<50, 50>>, major_axis |-> <<5, 0>>,
       ratio |-> 1, start_param |-> 0, end_param |-> 6, layer |-> "Walls"],
      [dxftype |-> "SPLINE", control_points |-> <<(<<-5, -5>>), (<<60, 1>>)>>,
       layer |-> "Walls"],
      [dxftype |-> "POINT", location |-> <<7, -9>>, layer |-> "Module"],
      [dxftype |-> "SOLID", vtx0 |-> <<0, 0>>, vtx1 |-> <<4, 0>>, vtx2 |-> <<0, 4>>,
       layer |-> "Module"],
      [dxftype |-> "HATCH", layer |-> "Module"],
      [dxftype |-> "3DFACE", layer |-> "Module"] }

\* {"x": v.x, "y": v.y}
XY(v) == [x |-> v[1], y |-> v[2]]

\* dxf.get(key, default)
DxfGet(dxf, key, default) == IF key \in DOMAIN dxf THEN dxf[key] ELSE default

\* [{"x": ..., "y": ..., "bulge": ...} for pt in entity.get_points(format="xyb")];
\* the sample polylines have straight segments
BulgePoints(points) ==
    [i \in 1..Len(points) |-> [x |-> points[i][1], y |-> points[i][2], bulge |-> 0]]

\* the vertices' locations as x/y dicts
VertexPoints(vertices) ==
    [i \in 1..Len(vertices) |-> XY(vertices[i].location)]

\* the vtx0..vtx3 the SOLID carries, in order
RECURSIVE SolidPoints(_, _)
SolidPoints(dxf, attrs) ==
    IF attrs = <<>> THEN <<>>
    ELSE IF Head(attrs) \in DOMAIN dxf
         THEN <<XY(dxf[Head(attrs)])>> \o SolidPoints(dxf, Tail(attrs))
         ELSE SolidPoints(dxf, Tail(attrs))

\* a dict, None, or Raised(..) when an attribute is missing
_parse_entity(entity) ==
    LET dxf == entity
        etype == entity.dxftype
        base == [type |-> etype, layer |-> DxfGet(dxf, "layer", "0"),
                 color |-> DxfGet(dxf, "color", 256)]
        has(keys) == keys \subseteq DOMAIN dxf
    IN
    IF etype = "LINE" THEN
        IF ~has({"start", "end"}) THEN Raised("AttributeError")
        ELSE base @@ [start |-> XY(dxf.start), end |-> XY(dxf.end)]
    ELSE IF etype = "CIRCLE" THEN
        IF ~has({"center", "radius"}) THEN Raised("AttributeError")
        ELSE base @@ [center |-> XY(dxf.center), radius |-> dxf.radius]
    ELSE IF etype = "ARC" THEN
        IF ~has({"center", "radius", "start_angle", "end_angle"})
        THEN Raised("AttributeError")
        ELSE base @@ [center |-> XY(dxf.center), radius |-> dxf.radius,
                      start_angle |-> dxf.start_angle,
                      end_angle |-> dxf.end_angle]
    ELSE IF etype = "LWPOLYLINE" THEN
        base @@ [points |-> BulgePoints(entity.points), closed |-> entity.closed]
    ELSE IF etype = "POLYLINE" THEN
        base @@ [points |-> VertexPoints(entity.vertices),
                 closed |-> entity.is_closed]
    ELSE IF etype = "TEXT" THEN
        IF ~has({"insert", "text"}) THEN Raised("AttributeError")
        ELSE base @@ [position |-> XY(dxf.insert), text |-> dxf.text,
                      height |-> DxfGet(dxf, "height", 1),
                      rotation |-> DxfGet(dxf, "rotation", 0)]
    ELSE IF etype = "MTEXT" THEN
        IF ~has({"insert", "text"}) THEN Raised("AttributeError")
        ELSE base @@ [position |-> XY(dxf.insert), text |-> dxf.text,
                      height |-> DxfGet(dxf, "char_height", 1)]
    ELSE IF etype = "INSERT" THEN
        IF ~has({"insert", "name"}) THEN Raised("AttributeError")
        ELSE base @@ [position |-> XY(dxf.insert), block_name |-> dxf.name,
                      x_scale |-> DxfGet(dxf, "xscale", 1),
                      y_scale |-> DxfGet(dxf, "yscale", 1),
                      rotation |-> DxfGet(dxf, "rotation", 0)]
    ELSE IF etype = "ELLIPSE" THEN
        IF ~has({"center", "major_axis", "ratio", "start_param", "end_param"})
        THEN Raised("AttributeError")
        ELSE base @@ [center |-> XY(dxf.center), major_axis |-> XY(dxf.major_axis),
                      ratio |-> dxf.ratio, start_param |-> dxf.start_param,
                      end_param |-> dxf.end_param]
    ELSE IF etype = "SPLINE" THEN
        base @@ [control_points |->
                     [i \in 1..Len(entity.control_points) |->
                          XY(entity.control_points[i])],
                 degree |-> DxfGet(dxf, "degree", 3)]
    ELSE IF etype = "POINT" THEN
        IF ~has({"location"}) THEN Raised("AttributeError")
        ELSE base @@ [position |-> XY(dxf.location)]
    ELSE IF etype = "SOLID" THEN
        base @@ [points |-> SolidPoints(dxf, <<"vtx0", "vtx1", "vtx2", "vtx3">>)]
    ELSE IF etype = "HATCH" THEN None
    ELSE IF etype = "DIMENSION" THEN None
    ELSE None

-----------------------------------------------------------------------------
(* dxf_parser.py: _update_bounds *)

\* d.get(key, default) of a dict
DictGet(d, key, default) == IF key \in DOMAIN d THEN d[key] ELSE default

\* parsed.get("center", {}).get("x", 0), ...("y", 0) as an x/y pair
CenterOf(parsed) ==
    LET c == DictGet(parsed, "center", <<>>)
    IN [x |-> DictGet(c, "x", 0), y |-> DictGet(c, "y", 0)]

\* the square's two corners, for CIRCLE and ARC
SquareCorners(parsed) ==
    LET cx == CenterOf(parsed).x
        cy == CenterOf(parsed).y
        r == DictGet(parsed, "radius", 0)
    IN << [x |-> cx - r, y |-> cy - r], [x |-> cx + r, y |-> cy + r] >>

\* pts, by the if/elif chain on the entity's type
UpdatePoints(parsed) ==
    LET etype == DictGet(parsed, "type", "") IN
    IF etype = "LINE" THEN
        << DictGet(parsed, "start", <<>>), DictGet(parsed, "end", <<>>) >>
    ELSE IF etype = "CIRCLE" THEN SquareCorners(parsed)
    ELSE IF etype = "ARC" THEN SquareCorners(parsed)
    ELSE IF etype \in {"LWPOLYLINE", "POLYLINE"} THEN DictGet(parsed, "points", <<>>)
    ELSE IF etype = "TEXT" \/ etype = "MTEXT" THEN
        << DictGet(parsed, "position", <<>>) >>
    ELSE IF etype = "INSERT" THEN << DictGet(parsed, "position", <<>>) >>
    ELSE IF etype = "ELLIPSE" THEN << CenterOf(parsed) >>
    ELSE IF etype = "SPLINE" THEN DictGet(parsed, "control_points", <<>>)
    ELSE IF etype = "POINT" THEN << DictGet(parsed, "position", <<>>) >>
    ELSE IF etype = "SOLID" \/ etype = "3DFACE" THEN DictGet(parsed, "points", <<>>)
    ELSE <<>>

\* the four tests of one pass of `for pt in pts`, each against the dict as the
\* test before it left it
UpdateWithPoint(d, pt) ==
    LET x == Fin(DictGet(pt, "x", 0))
        y == Fin(DictGet(pt, "y", 0))
        d1 == IF FloatLt(x, DictGet(d, "min_x", PosInf))
              THEN [k \in DOMAIN d \cup {"min_x"} |-> IF k = "min_x" THEN x ELSE d[k]]
              ELSE d
        d2 == IF FloatLt(y, DictGet(d1, "min_y", PosInf))
              THEN [k \in DOMAIN d1 \cup {"min_y"} |-> IF k = "min_y" THEN y ELSE d1[k]]
              ELSE d1
        d3 == IF FloatGt(x, DictGet(d2, "max_x", NegInf))
              THEN [k \in DOMAIN d2 \cup {"max_x"} |-> IF k = "max_x" THEN x ELSE d2[k]]
              ELSE d2
    IN IF FloatGt(y, DictGet(d3, "max_y", NegInf))
       THEN [k \in DOMAIN d3 \cup {"max_y"} |-> IF k = "max_y" THEN y ELSE d3[k]]
       ELSE d3

\* for pt in pts: ...
RECURSIVE UpdateWithPoints(_, _)
UpdateWithPoints(d, pts) ==
    IF pts = <<>> THEN d
    ELSE UpdateWithPoints(UpdateWithPoint(d, Head(pts)), Tail(pts))

\* the dict `scope` as the call leaves it
_update_bounds(parsed, scope_) == UpdateWithPoints(scope_, UpdatePoints(parsed))

-----------------------------------------------------------------------------
(* The runs *)

\* max_entities, as parse_dxf passes it
ENDPOINT_MAX_ENTITIES == 50000

Configs ==
    { [impl |-> i, caller |-> "direct", max |-> m] :
          i \in {"cad_parser", "main"}, m \in 1..MaxLen }
    \cup { [impl |-> "main", caller |-> "endpoint", max |-> ENDPOINT_MAX_ENTITIES] }

\* max_entities when the caller leaves it out
DEFAULT_MAX_ENTITIES == 250000

\* direct calls of extract_blocks, of either copy
BlockConfigs ==
    { [impl |-> i, caller |-> "blocks", max |-> m] :
          i \in {"cad_parser", "main"}, m \in 1..MaxLen }

\* calls of parse_dxf_file
FileConfigs == { [impl |-> "dxf_parser", caller |-> "file", max |-> 0] }

\* the names of doc.blocks, in order: the layouts' blocks, a named block and an
\* anonymous one
BlockNames == <<"*Model_Space", "A", "*Paper_Space0", "*U1">>

\* the entities a block of the sample documents may hold
BlockEntities ==
    { [dxftype |-> "LINE", start |-> <<0, 0>>, end |-> <<10, 0>>],
      [dxftype |-> "POLYLINE", vertices |-> <<[location |-> <<-2, 4>>]>>,
       is_closed |-> FALSE, layer |-> "Walls"],
      [dxftype |-> "POLYLINE", vertices |-> <<>>, is_closed |-> FALSE,
       layer |-> "Module"],
      [dxftype |-> "HATCH", layer |-> "Module"],
      [dxftype |-> "INSERT", name |-> "A", layer |-> "Module"] }

NoResponse == [status |-> 0]

Init ==
    /\ \E c \in Configs \cup BlockConfigs \cup FileConfigs :
          /\ impl = c.impl
          /\ caller = c.caller
          /\ max_entities = IF c.caller \in {"direct", "endpoint"}
                            THEN c.max ELSE DEFAULT_MAX_ENTITIES
          /\ max_entities_per_block = IF c.caller = "blocks"
                                      THEN c.max ELSE DEFAULT_MAX_ENTITIES_PER_BLOCK
          /\ pc = CASE c.caller = "endpoint" -> "read"
                    [] c.caller = "direct" -> "convert"
                    [] c.caller = "blocks" -> "extract"
                    [] c.caller = "file" -> "readfile"
    /\ blk_i = 0
    /\ blk_ents = <<>>
    /\ blocks_out = <<>>
    /\ min_x = PosInf
    /\ min_y = PosInf
    /\ max_x = NegInf
    /\ max_y = NegInf
    /\ scope = <<>>
    /\ msp = <<>>
    /\ entities = <<>>
    /\ count = 0
    /\ broke = FALSE
    /\ usable = <<>>
    /\ preferred = <<>>
    /\ pref_bounds = None
    /\ bounds = None
    /\ exc = ""
    /\ failed_at = ""
    /\ blocks = <<>>
    /\ response = NoResponse

\* a variant that catches the library's errors only
Catches_DxfErrorsOnly(kind) == kind \in {"DXFStructureError"}

\* except Exception as e
Catches(kind) == kind \in ExceptionClasses

\* raise HTTPException(status_code=400, detail=f"DXF parse failed: {repr(e)}")
ErrorResponse(kind) ==
    [status |-> 400, detail |-> <<"DXF parse failed: ", kind>>]

\* an exception leaves the running function; under parse_dxf its handler
\* answers it, and what the handler does not catch escapes to the framework
Propagate(kind, step) ==
    /\ exc' = kind
    /\ failed_at' = step
    /\ IF caller = "endpoint"
       THEN IF Catches(kind)
            THEN pc' = "responded" /\ response' = ErrorResponse(kind)
            ELSE pc' = "escaped" /\ UNCHANGED response
       ELSE pc' = "raised" /\ UNCHANGED response

\* data = await file.read()
ReadUpload ==
    /\ caller = "endpoint" /\ pc = "read"
    /\ \E ok \in BOOLEAN :
          IF ok THEN pc' = "load" /\ UNCHANGED <<exc, failed_at, response>>
          ELSE Propagate("OSError", "read")
    /\ UNCHANGED <<impl, caller, max_entities, msp, entities, count, broke,
                   usable, preferred, pref_bounds, bounds, blocks>>
    /\ UNCHANGED <<blockvars, parservars>>

\* load_dxf_from_bytes: ezdxf.read, and recover.read when that raises
LoadDxf ==
    /\ caller = "endpoint" /\ pc = "load"
    /\ \E read_ok \in BOOLEAN, recover_ok \in BOOLEAN :
          IF read_ok \/ recover_ok
          THEN pc' = "convert" /\ UNCHANGED <<exc, failed_at, response>>
          ELSE Propagate("DXFStructureError", "load")
    /\ UNCHANGED <<impl, caller, max_entities, msp, entities, count, broke,
                   usable, preferred, pref_bounds, bounds, blocks>>
    /\ UNCHANGED <<blockvars, parservars>>

\* the loop state of the run
LoopState == [entities |-> entities, count |-> count, exc |-> ""]

\* the loop body took `entity` and left loop state st
Iterated(entity, st) ==
    /\ msp' = Append(msp, entity)
    /\ entities' = st.entities
    /\ count' = st.count
    /\ IF st.exc # "" THEN Propagate(st.exc, "convert")
       ELSE UNCHANGED <<pc, exc, failed_at, response>>
    /\ UNCHANGED <<impl, caller, max_entities, broke, usable, preferred,
                   pref_bounds, bounds, blocks>>
    /\ UNCHANGED <<blockvars, parservars>>

\* dxf_to_render_json after the loop: usable, preferred, bounds, return
Returned(u, p, first, b) ==
    /\ usable' = u
    /\ preferred' = p
    /\ IF IsRaised(first) \/ IsRaised(b)
       THEN /\ Propagate(IF IsRaised(first) THEN first.raised ELSE b.raised,
                         "bounds")
            /\ UNCHANGED <<pref_bounds, bounds>>
       ELSE /\ pref_bounds' = first
            /\ bounds' = b
            /\ pc' = IF caller = "endpoint" THEN "blocks" ELSE "returned"
            /\ UNCHANGED <<exc, failed_at, response>>
    /\ UNCHANGED <<impl, caller, max_entities, entities, count, blocks>>
    /\ UNCHANGED <<blockvars, parservars>>

ReturnedParser ==
    LET u == UsableOf(entities)
        p == PreferredOf(u)
    IN Returned(u, p, _compute_bounds(p), SelectBounds(p, u))

ReturnedMain ==
    LET u == UsableOfMain(entities)
        p == PreferredOfMain(u)
    IN Returned(u, p, compute_bounds(p), SelectBoundsMain(p, u))

\* cad_parser.py: one pass of the loop
IterateParser ==
    /\ impl = "cad_parser" /\ pc = "convert"
    /\ Len(msp) < MaxLen
    /\ ~cap_reached(LoopState, max_entities)
    /\ \E entity \in RawEntities : Iterated(entity, loop_body(LoopState, entity))

\* cad_parser.py: the iterator yields an entity and the cap ends the loop
BreakParser ==
    /\ impl = "cad_parser" /\ pc = "convert"
    /\ Len(msp) < MaxLen
    /\ cap_reached(LoopState, max_entities)
    /\ \E entity \in RawEntities : msp' = Append(msp, entity)
    /\ broke' = TRUE
    /\ ReturnedParser

\* cad_parser.py: the iterator is exhausted
ExhaustParser ==
    /\ impl = "cad_parser" /\ pc = "convert"
    /\ UNCHANGED <<msp, broke>>
    /\ ReturnedParser

\* main.py: one pass of the loop
IterateMain ==
    /\ impl = "main" /\ pc = "convert"
    /\ Len(msp) < MaxLen
    /\ ~cap_reached_main(LoopState, max_entities)
    /\ \E e \in RawEntities : Iterated(e, loop_body_main(LoopState, e))

\* main.py: the iterator yields an entity and the cap ends the loop
BreakMain ==
    /\ impl = "main" /\ pc = "convert"
    /\ Len(msp) < MaxLen
    /\ cap_reached_main(LoopState, max_entities)
    /\ \E e \in RawEntities : msp' = Append(msp, e)
    /\ broke' = TRUE
    /\ ReturnedMain

\* main.py: the iterator is exhausted
ExhaustMain ==
    /\ impl = "main" /\ pc = "convert"
    /\ UNCHANGED <<msp, broke>>
    /\ ReturnedMain

\* payload["blocks"] = extract_blocks(doc); payload["debug"] = ...; return
ExtractBlocksAndRespond ==
    /\ caller = "endpoint" /\ pc = "blocks"
    /\ \E table \in BlockTables :
          LET out == extract_blocks_main(table, DEFAULT_MAX_ENTITIES_PER_BLOCK)
              payload == [layers |-> DocLayers, entities |-> entities,
                          bounds |-> bounds, blocks |-> out.blocks_out,
                          debug |-> [layers |-> Len(DocLayers),
                                     entities |-> Len(entities),
                                     blocks |-> Cardinality(DOMAIN out.blocks_out)]]
          IN /\ blocks' = table
             /\ IF out.exc # "" THEN Propagate(out.exc, "blocks")
                ELSE /\ pc' = "responded"
                     /\ response' = [status |-> 200, payload |-> payload]
                     /\ UNCHANGED <<exc, failed_at>>
    /\ UNCHANGED <<impl, caller, max_entities, msp, entities, count, broke,
                   usable, preferred, pref_bounds, bounds>>
    /\ UNCHANGED <<blockvars, parservars>>

-----------------------------------------------------------------------------
(* extract_blocks, called directly, step by step *)

\* the variables extract_blocks and parse_dxf_file leave alone
rendervars == <<impl, caller, max_entities, msp, entities, broke, usable,
                preferred, pref_bounds, bounds>>

\* the name of the block at hand
BlockAtHand == BlockNames[blk_i]

\* doc.blocks with `entity` yielded by the iterator of the block at hand
Yielded(entity) ==
    [blocks EXCEPT ![Len(blocks)].entities = Append(@, entity)]

\* the loop state of the block at hand
BlockState == [entities |-> blk_ents, count |-> count, exc |-> ""]

\* the loop body of the running copy
BlockBody(st, entity) ==
    IF impl = "cad_parser" THEN block_body(st, entity)
    ELSE block_body_main(st, entity)

\* len(entities) >= max_entities_per_block, count >= max_entities_per_block
BlockCapReached ==
    IF impl = "cad_parser" THEN Len(blk_ents) >= max_entities_per_block
    ELSE count >= max_entities_per_block

\* for block in doc.blocks: name = block.name; the layouts' blocks are skipped
\* by `continue`, another block starts with an empty list
EnterBlock ==
    /\ caller = "blocks" /\ pc = "extract"
    /\ blk_i < Len(BlockNames)
    /\ blk_i' = blk_i + 1
    /\ blocks' = Append(blocks, [name |-> BlockNames[blk_i + 1], entities |-> <<>>])
    /\ IF IsLayoutBlock(BlockNames[blk_i + 1])
       THEN UNCHANGED <<pc, blk_ents, count>>
       ELSE pc' = "in_block" /\ blk_ents' = <<>> /\ count' = 0
    /\ UNCHANGED <<rendervars, exc, failed_at, response, max_entities_per_block,
                   blocks_out, parservars>>

\* one pass of the loop over the block's entities
IterateBlock ==
    /\ caller = "blocks" /\ pc = "in_block"
    /\ Len(blocks[Len(blocks)].entities) < MaxLen
    /\ ~BlockCapReached
    /\ \E entity \in BlockEntities :
          LET st == BlockBody(BlockState, entity) IN
          /\ blocks' = Yielded(entity)
          /\ blk_ents' = st.entities
          /\ count' = st.count
          /\ IF st.exc # "" THEN Propagate(st.exc, "extract")
             ELSE UNCHANGED <<pc, exc, failed_at, response>>
    /\ UNCHANGED <<rendervars, max_entities_per_block, blk_i, blocks_out,
                   parservars>>

\* if entities: blocks_out[name] = entities, and on to the next block
EndBlock ==
    /\ blocks_out' = IF blk_ents # <<>>
                     THEN (BlockAtHand :> blk_ents) @@ blocks_out
                     ELSE blocks_out
    /\ pc' = "extract"
    /\ UNCHANGED <<rendervars, count, exc, failed_at, response,
                   max_entities_per_block, blk_i, blk_ents, parservars>>

\* the block's iterator yields an entity and the cap ends the inner loop
BreakBlock ==
    /\ caller = "blocks" /\ pc = "in_block"
    /\ Len(blocks[Len(blocks)].entities) < MaxLen
    /\ BlockCapReached
    /\ \E entity \in BlockEntities : blocks' = Yielded(entity)
    /\ EndBlock

\* the block's iterator is exhausted
ExhaustBlock ==
    /\ caller = "blocks" /\ pc = "in_block"
    /\ UNCHANGED blocks
    /\ EndBlock

\* return blocks_out
ReturnBlocks ==
    /\ caller = "blocks" /\ pc = "extract"
    /\ blk_i = Len(BlockNames)
    /\ pc' = "extracted"
    /\ UNCHANGED <<rendervars, count, exc, failed_at, response, blocks,
                   blockvars, parservars>>

-----------------------------------------------------------------------------
(* parse_dxf_file *)

\* locals(): a dict made from the frame's variables at the call; writing to
\* it changes the dict and leaves the frame's variables as they are
FrameLocals ==
    [min_x |-> min_x, min_y |-> min_y, max_x |-> max_x, max_y |-> max_y]

\* doc = ezdxf.readfile(file_path); msp = doc.modelspace()
ReadFile ==
    /\ caller = "file" /\ pc = "readfile"
    /\ \E ok \in BOOLEAN :
          IF ok THEN pc' = "parse" /\ UNCHANGED <<exc, failed_at, response>>
          ELSE Propagate("DXFStructureError", "readfile")
    /\ UNCHANGED <<rendervars, count, blocks, blockvars, parservars>>

\* one pass of `for entity in msp`: parsed = _parse_entity(entity);
\* if parsed: entities.append(parsed); ...; _update_bounds(parsed, locals())
ParseIterate ==
    /\ caller = "file" /\ pc = "parse"
    /\ Len(msp) < MaxLen
    /\ \E entity \in ParserEntities :
          LET parsed == _parse_entity(entity) IN
          /\ msp' = Append(msp, entity)
          /\ IF IsRaised(parsed)
             THEN /\ Propagate(parsed.raised, "parse")
                  /\ UNCHANGED <<entities, scope>>
             ELSE /\ UNCHANGED <<pc, exc, failed_at, response>>
                  /\ IF parsed # None
                     THEN /\ entities' = Append(entities, parsed)
                          /\ scope' = _update_bounds(parsed, FrameLocals)
                     ELSE UNCHANGED <<entities, scope>>
    /\ UNCHANGED <<impl, caller, max_entities, broke, usable, preferred,
                   pref_bounds, bounds, count, blocks, blockvars,
                   min_x, min_y, max_x, max_y>>

\* after the loop: if min_x == float('inf'): the default box; return
ParseReturn ==
    /\ caller = "file" /\ pc = "parse"
    /\ IF min_x = PosInf
       THEN /\ min_x' = Fin(0) /\ min_y' = Fin(0)
            /\ max_x' = Fin(1000) /\ max_y' = Fin(1000)
       ELSE UNCHANGED <<min_x, min_y, max_x, max_y>>
    /\ bounds' = [min_x |-> min_x', min_y |-> min_y',
                  max_x |-> max_x', max_y |-> max_y']
    /\ pc' = "parsed"
    /\ UNCHANGED <<impl, caller, max_entities, msp, entities, broke, usable,
                   preferred, pref_bounds, count, exc, failed_at, response,
                   blocks, blockvars, scope>>

Next ==
    \/ ReadUpload
    \/ LoadDxf
    \/ IterateParser
    \/ BreakParser
    \/ ExhaustParser
    \/ IterateMain
    \/ BreakMain
    \/ ExhaustMain
    \/ ExtractBlocksAndRespond
    \/ EnterBlock
    \/ IterateBlock
    \/ BreakBlock
    \/ ExhaustBlock
    \/ ReturnBlocks
    \/ ReadFile
    \/ ParseIterate
    \/ ParseReturn

Spec == Init /\ [][Next]_vars

-----------------------------------------------------------------------------
(* What the claims speak of *)

\* dxf_to_render_json has returned its result
RenderReturned ==
    \/ pc = "returned"
    \/ pc = "blocks"
    \/ pc = "responded" /\ failed_at \in {"", "blocks"}

\* the points a converted entity stands for: a segment's two ends, a
\* polyline's vertices, the two corners of the square around a circle or an
\* arc, the anchor of a text or a block reference
ClaimPoints(e) ==
    CASE e.type = "LINE" -> {e.p1, e.p2}
      [] e.type = "LWPOLYLINE" -> {e.points[i] : i \in 1..Len(e.points)}
      [] e.type \in {"CIRCLE", "ARC"} ->
            { <<e.center[1] - e.r, e.center[2] - e.r>>,
              <<e.center[1] + e.r, e.center[2] + e.r>> }
      [] e.type \in {"TEXT", "MTEXT", "INSERT"} -> {e.pos}
      [] OTHER -> {}

PointsOver(list) == UNION {ClaimPoints(list[i]) : i \in 1..Len(list)}

Least(S) == CHOOSE v \in S : \A w \in S : v <= w

Greatest(S) == CHOOSE v \in S : \A w \in S : v >= w

\* the smallest axis-aligned box around a non-empty set of points
BoxAround(P) ==
    [min |-> <<Least({p[1] : p \in P}), Least({p[2] : p \in P})>>,
     max |-> <<Greatest({p[1] : p \in P}), Greatest({p[2] : p \in P})>>]

\* the bounds over a list of entities: a box, or None without points
BoundsOver(list) ==
    IF PointsOver(list) = {} THEN None ELSE BoxAround(PointsOver(list))

OnIgnoredLayer(e) == e.layer \in IGNORE_LAYERS

OnPreferredLayer(e) ==
    e.layer \in PREFERRED_LAYERS /\ e.layer \notin IGNORE_LAYERS

NotOnIgnoredLayer(e) == ~OnIgnoredLayer(e)

\* the two entities of the end-to-end example, the segment off the
\* preferred layers
ExampleSegment ==
    [type |-> "LINE", layer |-> "Walls", p1 |-> <<0, 0>>, p2 |-> <<10, 0>>]

ExampleCircle(layer) ==
    [type |-> "CIRCLE", layer |-> layer, center |-> <<20, 20>>, r |-> 2]

-----------------------------------------------------------------------------
(* C1 *)

\* C1 as stated: once dxf_to_render_json has returned, if some entity lies on
\* a preferred layer that is not ignored, the bounds are the bounds over the
\* preferred-layer entities alone.
C1_AsStated ==
    RenderReturned =>
        LET pref == SelectSeq(entities, OnPreferredLayer) IN
        pref # <<>> => bounds = BoundsOver(pref)

\* C1, amended: once dxf_to_render_json has returned, if some entity on a
\* preferred layer that is not ignored contributes a point, the bounds are the
\* box around the points of the preferred-layer entities alone, whatever the
\* other entities are; the segment (0,0)-(10,0) off the preferred layers with
\* the circle centre (20,20) radius 2 on one gives min (18,18), max (22,22).
C1_PreferredAlone ==
    RenderReturned =>
        LET pref == SelectSeq(entities, OnPreferredLayer) IN
        /\ PointsOver(pref) # {} => bounds = BoxAround(PointsOver(pref))
        /\ entities = <<ExampleSegment, ExampleCircle("Module")>> =>
               bounds = [min |-> <<18, 18>>, max |-> <<22, 22>>]

\* the example has run: the segment's extent is not in the bounds
C1_Witness ==
    /\ RenderReturned
    /\ entities = <<ExampleSegment, ExampleCircle("Module")>>
    /\ bounds = [min |-> <<18, 18>>, max |-> <<22, 22>>]

-----------------------------------------------------------------------------
(* C2 *)

\* C2: once dxf_to_render_json has returned, if no entity's layer is in
\* PREFERRED_LAYERS, the bounds are the bounds over all entities whose layer
\* is not in IGNORE_LAYERS; the example segment and circle, both off the
\* preferred layers, give min (0,0), max (22,22).
C2_FallbackToUsable ==
    RenderReturned =>
        /\ (\A i \in 1..Len(entities) : entities[i].layer \notin PREFERRED_LAYERS)
               => bounds = BoundsOver(SelectSeq(entities, NotOnIgnoredLayer))
        /\ entities = <<ExampleSegment, ExampleCircle("Walls")>> =>
               bounds = [min |-> <<0, 0>>, max |-> <<22, 22>>]

\* the fallback example has run
C2_Witness ==
    /\ RenderReturned
    /\ entities = <<ExampleSegment, ExampleCircle("Walls")>>
    /\ bounds = [min |-> <<0, 0>>, max |-> <<22, 22>>]

-----------------------------------------------------------------------------
(* C3 *)

\* C3: once dxf_to_render_json has returned, if every entity's layer is in
\* IGNORE_LAYERS, also when there is no entity, the bounds are None.
C3_AllIgnoredIsNone ==
    RenderReturned =>
        ((\A i \in 1..Len(entities) : OnIgnoredLayer(entities[i]))
             => bounds = None)

\* entities with geometry, all on ignored layers, and no bounds
C3_Witness ==
    /\ RenderReturned
    /\ Len(entities) = MaxLen
    /\ \A i \in 1..Len(entities) :
           OnIgnoredLayer(entities[i]) /\ ClaimPoints(entities[i]) # {}
    /\ bounds = None

-----------------------------------------------------------------------------
(* C4 *)

\* the layer the conversion reads off a document entity
DocLayer(e) == IF "layer" \in DOMAIN e THEN e.layer ELSE "0"

DocEntityNotIgnored(e) == DocLayer(e) \notin IGNORE_LAYERS

\* the modelspace without its entities on ignored layers
WithoutIgnored(modelspace) == SelectSeq(modelspace, DocEntityNotIgnored)

\* kinds the conversion emits a record for
IsSupportedKind(e) ==
    \/ e.dxftype \in {"LINE", "LWPOLYLINE", "CIRCLE", "ARC", "TEXT", "MTEXT", "INSERT"}
    \/ e.dxftype = "POLYLINE" /\ e.vertices # <<>>

\* what the running copy of dxf_to_render_json returns for a modelspace
RenderOf(modelspace) ==
    IF impl = "cad_parser"
    THEN dxf_to_render_json(modelspace, max_entities)
    ELSE dxf_to_render_json_main(modelspace, max_entities)

\* C4 as stated: once dxf_to_render_json has returned, for any max_entities,
\* the bounds are those it returns for the same modelspace without the
\* entities on ignored layers.
C4_AsStated ==
    RenderReturned =>
        LET twin == RenderOf(WithoutIgnored(msp)) IN
        twin.exc = "" /\ bounds = twin.bounds

\* C4, amended: once dxf_to_render_json has returned for a modelspace that
\* holds at most max_entities entities of supported kinds, the bounds are
\* those it returns, without raising, for the same modelspace without the
\* entities on ignored layers.
C4_IgnoredLayersNoEffect ==
    RenderReturned /\ Len(SelectSeq(msp, IsSupportedKind)) <= max_entities =>
        LET twin == RenderOf(WithoutIgnored(msp)) IN
        twin.exc = "" /\ bounds = twin.bounds

\* a modelspace within the cap, with geometry on an ignored layer beside the
\* geometry the bounds come from
C4_Witness ==
    /\ RenderReturned
    /\ Len(SelectSeq(msp, IsSupportedKind)) <= max_entities
    /\ WithoutIgnored(msp) # msp
    /\ \E i \in 1..Len(entities) :
           OnIgnoredLayer(entities[i]) /\ ClaimPoints(entities[i]) # {}
    /\ bounds # None
    /\ bounds # BoundsOver(entities)

-----------------------------------------------------------------------------
(* C5 *)

IsBox(b) == DOMAIN b = {"min", "max"}

\* result is None when the list contributes no point, and else the box whose
\* bounds are the least and greatest x and y over the contributed points
SmallestBoxOrNone(result, list) ==
    LET P == PointsOver(list) IN
    IF P = {} THEN result = None
    ELSE /\ IsBox(result)
         /\ \A p \in P : /\ result.min[1] <= p[1] /\ p[1] <= result.max[1]
                         /\ result.min[2] <= p[2] /\ p[2] <= result.max[2]
         /\ \E p \in P : p[1] = result.min[1]
         /\ \E p \in P : p[2] = result.min[2]
         /\ \E p \in P : p[1] = result.max[1]
         /\ \E p \in P : p[2] = result.max[2]
         /\ result.min[1] <= result.max[1]
         /\ result.min[2] <= result.max[2]

\* C5: each bounds call of a returned dxf_to_render_json gave None when its
\* list contributed no point, and else the smallest axis-aligned box around
\* the contributed points: every point inside, each of the four bounds
\* attained by a point, min <= max on both axes.
C5_SmallestBox ==
    RenderReturned =>
        /\ SmallestBoxOrNone(pref_bounds, preferred)
        /\ pref_bounds = None => SmallestBoxOrNone(bounds, usable)

\* a box over two entities that neither entity alone gives
C5_Witness ==
    /\ RenderReturned
    /\ impl = "cad_parser"
    /\ Len(preferred) = 2
    /\ IsBox(pref_bounds)
    /\ pref_bounds.min[1] < pref_bounds.max[1]
    /\ pref_bounds.min[2] < pref_bounds.max[2]
    /\ pref_bounds # BoundsOver(<<preferred[1]>>)
    /\ pref_bounds # BoundsOver(<<preferred[2]>>)

-----------------------------------------------------------------------------
(* C6 *)

IsCircleOrArc(e) == e.type \in {"CIRCLE", "ARC"}

\* the list the returned bounds were computed over
BoundsList == IF pref_bounds = None THEN usable ELSE preferred

\* C6: in the bounds of a returned dxf_to_render_json a CIRCLE or an ARC
\* stands for the two points (cx - r, cy - r) and (cx + r, cy + r), whatever
\* an arc's angles: alone it gives exactly that square, and a lone circle
\* with centre (10,10) and radius 5 gives min (5,5), max (15,15).
C6_CircleArcSquare ==
    RenderReturned =>
        /\ (\E i \in 1..Len(BoundsList) : IsCircleOrArc(BoundsList[i]))
               => bounds = BoundsOver(BoundsList)
        /\ Len(usable) = 1 /\ IsCircleOrArc(usable[1]) =>
               LET c == usable[1].center
                   r == usable[1].r
               IN bounds = [min |-> <<c[1] - r, c[2] - r>>,
                            max |-> <<c[1] + r, c[2] + r>>]
        /\ Len(usable) = 1 /\ usable[1].type = "CIRCLE"
               /\ usable[1].center = <<10, 10>> /\ usable[1].r = 5
               => bounds = [min |-> <<5, 5>>, max |-> <<15, 15>>]

\* the lone circle of the example
C6_Witness ==
    /\ RenderReturned
    /\ impl = "cad_parser"
    /\ Len(entities) = 1
    /\ entities[1].type = "CIRCLE"
    /\ entities[1].center = <<10, 10>> /\ entities[1].r = 5
    /\ bounds = [min |-> <<5, 5>>, max |-> <<15, 15>>]

\* a lone arc gives the full square of its circle
C6_ArcWitness ==
    /\ RenderReturned
    /\ Len(entities) = 1
    /\ entities[1].type = "ARC"
    /\ entities[1].start_angle = 90
    /\ bounds = [min |-> <<5, 5>>, max |-> <<15, 15>>]

-----------------------------------------------------------------------------
(* C7 *)

\* the bounds function of the running copy
BoundsFn(list) ==
    IF impl = "cad_parser" THEN _compute_bounds(list) ELSE compute_bounds(list)

Front(list) == SubSeq(list, 1, Len(list) - 1)

StrictlyInside(p, B) ==
    /\ B.min[1] < p[1] /\ p[1] < B.max[1]
    /\ B.min[2] < p[2] /\ p[2] < B.max[2]

StrictlyOutside(p, B) ==
    \/ p[1] < B.min[1] \/ p[1] > B.max[1]
    \/ p[2] < B.min[2] \/ p[2] > B.max[2]

\* B with exactly the bounds p exceeds moved to p's coordinate
Extended(p, B) ==
    [min |-> <<IF p[1] < B.min[1] THEN p[1] ELSE B.min[1],
               IF p[2] < B.min[2] THEN p[2] ELSE B.min[2]>>,
     max |-> <<IF p[1] > B.max[1] THEN p[1] ELSE B.max[1],
               IF p[2] > B.max[2] THEN p[2] ELSE B.max[2]>>]

\* the last entity of the list contributes a single point
EndsWithSinglePoint(list) ==
    /\ list # <<>>
    /\ Cardinality(ClaimPoints(list[Len(list)])) = 1

LastPoint(list) == CHOOSE p \in ClaimPoints(list[Len(list)]) : TRUE

\* result, the bounds over list, against the bounds over list without its
\* last entity
MonotoneAt(list, result) ==
    EndsWithSinglePoint(list) /\ IsBox(BoundsFn(Front(list))) =>
        LET B == BoundsFn(Front(list))
            p == LastPoint(list)
        IN /\ StrictlyInside(p, B) => result = B
           /\ StrictlyOutside(p, B) => result = Extended(p, B)

\* C7: for each bounds call of a returned dxf_to_render_json whose list ends
\* with an entity that contributes a single point, where the list without
\* that entity has a box B: a point strictly inside B leaves the result equal
\* to B, and a point strictly outside B moves exactly the bounds it exceeds
\* to its coordinate and leaves the other bounds as in B.
C7_Monotone ==
    RenderReturned =>
        /\ MonotoneAt(preferred, pref_bounds)
        /\ pref_bounds = None => MonotoneAt(usable, bounds)

\* a point outside the box that moves some bounds and leaves another
C7_Witness ==
    /\ RenderReturned
    /\ EndsWithSinglePoint(preferred)
    /\ IsBox(BoundsFn(Front(preferred)))
    /\ StrictlyOutside(LastPoint(preferred), BoundsFn(Front(preferred)))
    /\ pref_bounds = Extended(LastPoint(preferred), BoundsFn(Front(preferred)))
    /\ pref_bounds.min[1] = BoundsFn(Front(preferred)).min[1]
    /\ pref_bounds.max[1] # BoundsFn(Front(preferred)).max[1]

\* a point strictly inside the box
C7_InsideWitness ==
    /\ RenderReturned
    /\ EndsWithSinglePoint(preferred)
    /\ IsBox(BoundsFn(Front(preferred)))
    /\ StrictlyInside(LastPoint(preferred), BoundsFn(Front(preferred)))
    /\ pref_bounds = BoundsFn(Front(preferred))

-----------------------------------------------------------------------------
(* C8 *)

\* a coordinate of bounds b that no point of the list has
HasUnsetCoordinate(b, list) ==
    LET P == PointsOver(list) IN
    \/ b.min[1] \notin {p[1] : p \in P} \/ b.min[2] \notin {p[2] : p \in P}
    \/ b.max[1] \notin {p[1] : p \in P} \/ b.max[2] \notin {p[2] : p \in P}

\* C8: the bounds calls and the preferred/usable selection never raise, and
\* a returned dxf_to_render_json holds a box or None for each call: None
\* exactly when the list has no point, and a box only of coordinates that
\* points of the list have.
C8_ResolverTotal ==
    /\ failed_at # "bounds"
    /\ exc \notin {"KeyError", "ValueError"}
    /\ RenderReturned =>
          /\ pref_bounds = None \/ IsBox(pref_bounds)
          /\ bounds = None \/ IsBox(bounds)
          /\ bounds = None <=> PointsOver(usable) = {}
          /\ IsBox(bounds) => ~HasUnsetCoordinate(bounds, usable)

\* the bounds of a polyline without vertices: None, and no exception
C8_Witness ==
    /\ RenderReturned
    /\ exc = ""
    /\ \E i \in 1..Len(usable) :
           usable[i].type = "LWPOLYLINE" /\ usable[i].points = <<>>
    /\ \E i \in 1..Len(preferred) :
           preferred[i].type = "LWPOLYLINE" /\ preferred[i].points = <<>>
    /\ bounds = None

-----------------------------------------------------------------------------
(* C9 *)

PayloadKeys == {"layers", "entities", "bounds", "blocks", "debug"}

\* C9: a request that parse_dxf handles ends with the full payload (layers,
\* entities, bounds, blocks, debug) or with the 400 error that carries the
\* failure: a failure of any step (reading the upload, loading or recovering
\* the document, converting, extracting blocks) is answered by the 400
\* error, none escapes the handler, and a payload is never partial.
C9_TwoOutcomes ==
    caller = "endpoint" =>
        /\ pc # "escaped"
        /\ exc # "" => /\ pc = "responded"
                       /\ response = [status |-> 400,
                                      detail |-> <<"DXF parse failed: ", exc>>]
        /\ pc = "responded" =>
              \/ /\ response.status = 200
                 /\ exc = ""
                 /\ DOMAIN response.payload = PayloadKeys
              \/ /\ response.status = 400
                 /\ exc # ""
        /\ pc # "responded" => response = NoResponse

\* a failure while extracting blocks, after the payload was built, answered
\* by the 400 error
C9_Witness ==
    /\ caller = "endpoint"
    /\ pc = "responded"
    /\ failed_at = "blocks"
    /\ entities # <<>>
    /\ response = [status |-> 400,
                   detail |-> <<"DXF parse failed: ", "AttributeError">>]

\* each step's failure, and the payload, are reached
C9_ReadFailure == caller = "endpoint" /\ failed_at = "read" /\ response.status = 400
C9_LoadFailure == caller = "endpoint" /\ failed_at = "load" /\ response.status = 400
C9_ConvertFailure == caller = "endpoint" /\ failed_at = "convert" /\ response.status = 400
C9_Payload == caller = "endpoint" /\ response.status = 200 /\ entities # <<>>

-----------------------------------------------------------------------------
(* C10 *)

\* the record the conversion makes of one document entity
ConversionOf(e) == _convert_entity(e, _safe_layer(e))

\* the conversions of the entities of supported kinds, in order
RECURSIVE ConversionsOf(_)
ConversionsOf(modelspace) ==
    IF modelspace = <<>> THEN <<>>
    ELSE IF IsSupportedKind(Head(modelspace))
         THEN <<ConversionOf(Head(modelspace))>> \o ConversionsOf(Tail(modelspace))
         ELSE ConversionsOf(Tail(modelspace))

Take(list, n) == SubSeq(list, 1, IF n < Len(list) THEN n ELSE Len(list))

\* the types the bounds computation has a branch for
BoundsTypes == {"LINE", "LWPOLYLINE", "CIRCLE", "ARC", "TEXT", "MTEXT", "INSERT"}

\* unsupported entities leave no trace: none raises, and the result is that
\* of the modelspace without them
UnsupportedLeaveNoTrace ==
    /\ failed_at # "bounds"
    /\ failed_at = "convert" => IsSupportedKind(msp[Len(msp)])
    /\ RenderReturned =>
          LET twin == RenderOf(SelectSeq(msp, IsSupportedKind)) IN
          /\ twin.exc = ""
          /\ twin.entities = entities
          /\ twin.bounds = bounds

\* C10 as stated: the entities of a returned dxf_to_render_json are exactly
\* the conversions of the entities of supported kinds, in order, each of a
\* type the bounds computation handles, and unsupported entities leave no
\* trace.
C10_AsStated ==
    /\ RenderReturned =>
          /\ entities = ConversionsOf(msp)
          /\ \A i \in 1..Len(entities) : entities[i].type \in BoundsTypes
    /\ UnsupportedLeaveNoTrace

\* C10, amended: the entities of a returned dxf_to_render_json are exactly
\* the first max_entities conversions of the entities of supported kinds, in
\* order, each of a type the bounds computation handles, and unsupported
\* entities leave no trace: they are not in the output, do not raise and do
\* not change the bounds.
C10_UnsupportedDropped ==
    /\ RenderReturned =>
          /\ entities = Take(ConversionsOf(msp), max_entities)
          /\ \A i \in 1..Len(entities) : entities[i].type \in BoundsTypes
    /\ UnsupportedLeaveNoTrace

\* an unsupported entity ahead of a converted one, and one behind
C10_Witness ==
    /\ RenderReturned
    /\ exc = ""
    /\ Len(msp) = MaxLen
    /\ ~IsSupportedKind(msp[1])
    /\ Len(entities) = MaxLen - 1
    /\ bounds # None

-----------------------------------------------------------------------------
(* C11 *)

\* extract_blocks has returned blocks_out
BlocksReturned == caller = "blocks" /\ pc = "extracted"

\* a POLYLINE's record: type LWPOLYLINE with the vertices' locations
FromPolyline(rec) ==
    rec.type = "LWPOLYLINE" /\ rec.points = <<(<<-2, 4>>)>>

\* C11: the two copies agree.  For the modelspace and max_entities of a run,
\* dxf_to_render_json of cad_parser.py and of main.py return the same
\* entities and the same bounds, which are the run's, or raise the same
\* exception; for the block table and max_entities_per_block of a run,
\* extract_blocks of cad_parser.py and of main.py return the same blocks,
\* which are the run's, or raise the same exception; polylines included.
C11_CopiesAgree ==
    /\ RenderReturned =>
          LET a == dxf_to_render_json(msp, max_entities)
              b == dxf_to_render_json_main(msp, max_entities)
          IN a = b /\ a.exc = "" /\ a.entities = entities /\ a.bounds = bounds
    /\ failed_at = "convert" =>
          /\ dxf_to_render_json(msp, max_entities).exc = exc
          /\ dxf_to_render_json_main(msp, max_entities).exc = exc
    /\ BlocksReturned =>
          LET a == extract_blocks(blocks, max_entities_per_block)
              b == extract_blocks_main(blocks, max_entities_per_block)
          IN a = b /\ a.exc = "" /\ a.blocks_out = blocks_out
    /\ failed_at = "extract" =>
          /\ extract_blocks(blocks, max_entities_per_block).exc = exc
          /\ extract_blocks_main(blocks, max_entities_per_block).exc = exc
    /\ caller = "endpoint" /\ pc = "responded" /\ failed_at \in {"", "blocks"} =>
          extract_blocks(blocks, max_entities_per_block)
              = extract_blocks_main(blocks, max_entities_per_block)

\* dxf_to_render_json returned a POLYLINE's record beside another entity, and
\* the bounds hold the polyline's point
C11_Witness ==
    /\ RenderReturned
    /\ Len(entities) = 2
    /\ msp[1].dxftype = "POLYLINE"
    /\ FromPolyline(entities[1])
    /\ entities[1].layer = "Module"
    /\ IsBox(bounds)
    /\ bounds.min[1] = -2
    /\ bounds.max[1] > -2

\* extract_blocks returned two blocks, one with a POLYLINE's record
C11_BlocksWitness ==
    /\ BlocksReturned
    /\ DOMAIN blocks_out = {"A", "*U1"}
    /\ FromPolyline(blocks_out["A"][1])
    /\ \E i \in 1..Len(blocks) :
          \E j \in 1..Len(blocks[i].entities) :
              blocks[i].entities[j].dxftype = "POLYLINE"
              /\ blocks[i].entities[j].vertices = <<>>

-----------------------------------------------------------------------------
(* C12 *)

\* parse_dxf_file has returned
FileParsed == caller = "file" /\ pc = "parsed"

\* the points a parsed entity contributes to the bounding box
ParsedPoints(e) ==
    LET at(d) == <<d.x, d.y>>
        all(list) == {at(list[i]) : i \in 1..Len(list)}
    IN CASE e.type = "LINE" -> {at(e.start), at(e.end)}
         [] e.type \in {"CIRCLE", "ARC"} ->
               { <<e.center.x - e.radius, e.center.y - e.radius>>,
                 <<e.center.x + e.radius, e.center.y + e.radius>> }
         [] e.type \in {"LWPOLYLINE", "POLYLINE", "SOLID"} -> all(e.points)
         [] e.type \in {"TEXT", "MTEXT", "INSERT", "POINT"} -> {at(e.position)}
         [] e.type = "ELLIPSE" -> {at(e.center)}
         [] e.type = "SPLINE" -> all(e.control_points)
         [] OTHER -> {}

ParsedPointsOver(list) == UNION {ParsedPoints(list[i]) : i \in 1..Len(list)}

\* the box returned when nothing set the bounds
DefaultBox ==
    [min_x |-> Fin(0), min_y |-> Fin(0), max_x |-> Fin(1000), max_y |-> Fin(1000)]

\* the least and greatest x and y over a non-empty set of points
ExtentOf(P) ==
    [min_x |-> Fin(Least({p[1] : p \in P})), min_y |-> Fin(Least({p[2] : p \in P})),
     max_x |-> Fin(Greatest({p[1] : p \in P})),
     max_y |-> Fin(Greatest({p[2] : p \in P}))]

\* C12 as stated: when parse_dxf_file has returned, if a parsed entity
\* contributed a point the bounds are the least and greatest x and y over the
\* points the parsed entities contributed, and the default box (0, 0, 1000,
\* 1000) is returned only when no entity contributed a point.
C12_AsStated ==
    FileParsed =>
        LET P == ParsedPointsOver(entities) IN
        IF P # {} THEN bounds = ExtentOf(P) ELSE bounds = DefaultBox

\* parse_dxf_file returned the default box for entities that contributed
\* points, the last of which _update_bounds wrote into the dict it was handed
C12_Witness ==
    /\ FileParsed
    /\ Len(entities) = 2
    /\ ParsedPointsOver(entities) # {}
    /\ ParsedPoints(entities[2]) # {}
    /\ scope = ExtentOf(ParsedPoints(entities[2]))
    /\ bounds = DefaultBox

\* what the code does: the default box, whatever was parsed
C12_AlwaysDefault == FileParsed => bounds = DefaultBox

-----------------------------------------------------------------------------
(* C13 *)

\* the conversion gives a record for the entity
ConvertsToRecord(e) ==
    LET c == ConversionOf(e) IN ~IsRaised(c) /\ c # None

\* the records of the entities that convert, in iteration order
RECURSIVE SuccessfulConversions(_)
SuccessfulConversions(list) ==
    IF list = <<>> THEN <<>>
    ELSE IF ConvertsToRecord(Head(list))
         THEN <<ConversionOf(Head(list))>> \o SuccessfulConversions(Tail(list))
         ELSE SuccessfulConversions(Tail(list))

\* dxf_to_render_json is at work or has returned
RenderRun == caller \in {"direct", "endpoint"}

\* the bounds that the collected entities alone determine: over those on
\* preferred layers when they give a box, else over those not ignored
BoundsOfCollected(list) ==
    LET pref == SelectSeq(list, OnPreferredLayer) IN
    IF BoundsOver(pref) # None THEN BoundsOver(pref)
    ELSE BoundsOver(SelectSeq(list, NotOnIgnoredLayer))

\* C13: at every step of the conversion loop and on return the collected
\* entities number at most max_entities, and max_entities_per_block in each
\* block of extract_blocks; they are exactly the first max_entities (per
\* block: max_entities_per_block) records of the entities that convert, in
\* iteration order, so that dropped and unsupported entities use up none of
\* the cap; and the bounds returned are those of the collected entities.
C13_EntityCap ==
    /\ RenderRun =>
          /\ Len(entities) <= max_entities
          /\ entities = Take(SuccessfulConversions(msp), max_entities)
          /\ impl = "main" => count = Len(entities)
    /\ RenderReturned => bounds = BoundsOfCollected(entities)
    /\ caller = "blocks" =>
          /\ Len(blk_ents) <= max_entities_per_block
          /\ pc = "in_block" =>
                blk_ents = Take(SuccessfulConversions(blocks[Len(blocks)].entities),
                                max_entities_per_block)
          /\ \A i \in 1..Len(blocks) :
                blocks[i].name \in DOMAIN blocks_out =>
                    /\ Len(blocks_out[blocks[i].name]) <= max_entities_per_block
                    /\ blocks_out[blocks[i].name] =
                           Take(SuccessfulConversions(blocks[i].entities),
                                max_entities_per_block)

\* the cap ended the loop at a second entity with geometry of its own: one
\* entity is collected and the bounds are that entity's
C13_Witness ==
    /\ RenderReturned
    /\ broke
    /\ max_entities = 1
    /\ Len(msp) = 2
    /\ Len(entities) = 1
    /\ ConvertsToRecord(msp[2])
    /\ NotOnIgnoredLayer(ConversionOf(msp[2]))
    /\ IsBox(bounds)
    /\ bounds = BoundsOver(entities)
    /\ bounds # BoundsOfCollected(SuccessfulConversions(msp))

\* a dropped entity ahead of a collected one, under a cap of one
C13_DroppedWitness ==
    /\ RenderReturned
    /\ max_entities = 1
    /\ Len(msp) = 2
    /\ ~ConvertsToRecord(msp[1])
    /\ Len(entities) = 1

\* a block cut at the cap by `break`, after a dropped entity
C13_BlockWitness ==
    /\ BlocksReturned
    /\ max_entities_per_block = 1
    /\ "A" \in DOMAIN blocks_out
    /\ \E i \in 1..Len(blocks) :
          /\ blocks[i].name = "A"
          /\ Len(blocks[i].entities) = MaxLen
          /\ ConvertsToRecord(blocks[i].entities[MaxLen])
          /\ Len(SuccessfulConversions(blocks[i].entities)) > Len(blocks_out["A"])

-----------------------------------------------------------------------------
(* C14 *)

\* the block names that are *Model_Space or begin with *Paper_Space
LayoutNames == {"*Model_Space", "*Paper_Space", "*Paper_Space0"}

\* the blocks of a table that are to have an entry: not a layout's, and with
\* an entity that converts
EntryNames(table) ==
    { table[i].name : i \in { j \in 1..Len(table) :
          /\ table[j].name \notin LayoutNames
          /\ SuccessfulConversions(table[j].entities) # <<>> } }

\* blocks_out has an entry exactly for the blocks of the table that are to
\* have one, each made of that block's own entities
EntriesPerBlock(out, table, cap) ==
    /\ DOMAIN out = EntryNames(table)
    /\ \A i \in 1..Len(table) :
          table[i].name \in DOMAIN out =>
              out[table[i].name] = Take(SuccessfulConversions(table[i].entities), cap)

\* the endpoint answered with the payload
Answered == caller = "endpoint" /\ pc = "responded" /\ response.status = 200

\* C14: block contents stay out of the top-level bounds.  The bounds of a
\* returned dxf_to_render_json are those of its collected entities with an
\* INSERT standing for its anchor position alone, and the endpoint's payload
\* carries the bounds computed from the modelspace whatever the document's
\* block definitions are; extract_blocks returns an entry exactly for the
\* blocks that are neither *Model_Space nor *Paper_Space* and have a converted
\* entity, and each entry holds that block's own entities.
C14_BlocksApart ==
    /\ RenderReturned /\ (\E i \in 1..Len(entities) : entities[i].type = "INSERT")
          => bounds = BoundsOfCollected(entities)
    /\ Answered =>
          /\ response.payload.bounds
                 = dxf_to_render_json_main(msp, max_entities).bounds
          /\ response.payload.entities
                 = dxf_to_render_json_main(msp, max_entities).entities
          /\ EntriesPerBlock(response.payload.blocks, blocks,
                             max_entities_per_block)
    /\ BlocksReturned =>
          EntriesPerBlock(blocks_out, blocks, max_entities_per_block)

\* the payload for a modelspace with an INSERT of block A alone, in a document
\* that defines block A with geometry far from the anchor: the bounds are the
\* anchor, and the block's geometry is under blocks
C14_Witness ==
    /\ Answered
    /\ Len(entities) = 1
    /\ entities[1].type = "INSERT"
    /\ entities[1].name = "A"
    /\ entities[1].pos = <<30, -3>>
    /\ response.payload.bounds = [min |-> <<30, -3>>, max |-> <<30, -3>>]
    /\ DOMAIN response.payload.blocks = {"A"}
    /\ response.payload.blocks["A"][1].p2 = <<200, 200>>

\* the same modelspace in a document without block definitions: same bounds
C14_NoBlocksWitness ==
    /\ Answered
    /\ Len(entities) = 1
    /\ entities[1].type = "INSERT"
    /\ blocks = <<>>
    /\ response.payload.bounds = [min |-> <<30, -3>>, max |-> <<30, -3>>]

\* extract_blocks returned entries for A and *U1, each with its own entities,
\* past the layouts' blocks and a block left out for want of a record
C14_EntriesWitness ==
    /\ BlocksReturned
    /\ DOMAIN blocks_out = {"A", "*U1"}
    /\ blocks_out["A"] # blocks_out["*U1"]
    /\ Len(blocks) = Len(BlockNames)

\* a block whose entities are all dropped has no entry
C14_EmptyBlockWitness ==
    /\ BlocksReturned
    /\ DOMAIN blocks_out = {"*U1"}
    /\ blocks[2].name = "A"
    /\ blocks[2].entities # <<>>

====
